---- MODULE Spec2Model ----
(***************************************************************************)
(* A model of ttbs.py: the scheduled data-refresh and reporting pipeline   *)
(* of the bot.  It covers the background scheduler and its nine jobs, the  *)
(* price recorder (record_crypto_data) and the daily summary               *)
(* (post_daily_summary) that share crypto_data.json, and the pure report   *)
(* formatters (trading signal, risk meter, top gainers/losers).            *)
(*                                                                         *)
(* Several specifications share the variables; each one moves the          *)
(* variables of its own part and leaves the others at their initial value. *)
(***************************************************************************)
EXTENDS Integers, Sequences, FiniteSets, TLC

VARIABLES
    \* ---- crypto_data.json and the clock
    now,            \* datetime.datetime.utcnow(), in hours
    file,           \* the content of DATA_FILENAME on disk
    \* ---- record_crypto_data (one run at a time: APScheduler max_instances=1)
    wpc,            \* position of the run
    record,         \* local: the record under construction
    responses,      \* history: what the price API answered in this run
    existing_data,  \* local: the list loaded from the file, then appended to
    preFile,        \* history: the file as it was when the run started
    lastAppended,   \* history: the record the last completed write appended
    \* ---- post_daily_summary
    rpc,            \* position of the run
    data_records,   \* local: json.load(f)
    rload,          \* history: how the load ended (none, missing, corrupt,
                    \* ioerror, ok)
    rnow,           \* local: now (line 336)
    summary_text,   \* local: the text computed
    channel,        \* what the run sent to CHANNEL_CHAT_ID
    tornRead,       \* history: json.load ran on a file a concurrent write had
                    \* left neither as before nor as after the append
    \* ---- the scheduler
    schedulerRunning,   \* the BackgroundScheduler is dispatching ticks
    jobState,           \* per job: Idle or Running
    failedJob,          \* history: the last run that failed, and how
    ranSince,           \* history: the jobs that started a run since then
    \* ---- the formatters and post_risk_meter
    fnInput,            \* what the upstream API answered to the call
    fnOutput,           \* what the call returned or did
    riskFile,           \* the content of risk_meter.json
    riskPublished,      \* history: the risk messages sent to the channel
    \* ---- the chat handlers
    user_states,        \* per chat: the interaction it is waiting for
    user_portfolios     \* per chat: the portfolio text

logVars   == <<now, file, wpc, record, responses, existing_data, preFile, lastAppended,
               rpc, data_records, rload, rnow, summary_text, channel, tornRead>>
schedVars == <<schedulerRunning, jobState, failedJob, ranSince>>
fnVars    == <<fnInput, fnOutput, riskFile, riskPublished>>
chatVars  == <<user_states, user_portfolios>>
vars      == <<logVars, schedVars, fnVars, chatVars>>

-----------------------------------------------------------------------------
(* Bounds of the model *)

MaxRecords == 2     \* runs of record_crypto_data that reach the file
MaxTime    == 10    \* the clock stops here
MaxPrice   == 2     \* prices are 1..MaxPrice

(* Program constants *)

WINDOW_HOURS == 9   \* datetime.timedelta(hours=9)

TOP_COINS == <<"BTC", "ETH", "BNB", "ADA", "XRP">>

CoinSet == {TOP_COINS[i] : i \in DOMAIN TOP_COINS}

\* The clock moves in steps of half a window (rounded up): a record is inside
\* the window one step later and outside it two steps later.
ClockStep == (WINDOW_HOURS + 1) \div 2

-----------------------------------------------------------------------------
(* Values.  Python values of different types are tagged records, so that   *)
(* a float and the string "N/A" can be compared.                           *)

Float(p) == [tag |-> "float", val |-> p]
NA       == [tag |-> "N/A",   val |-> 0]
None     == [tag |-> "None",  val |-> 0]

Prices == 1..MaxPrice

\* requests.get(...).json() of /ticker/price: the call raises (network,
\* timeout, not JSON), or answers a payload without "price" (an error object),
\* or a payload whose price float() parses.
Raises        == [tag |-> "raise",   val |-> 0]
NoPriceKey    == [tag |-> "noprice", val |-> 0]
PricePayload(p) == [tag |-> "price", val |-> p]

PriceResponses == {Raises, NoPriceKey} \cup {PricePayload(p) : p \in Prices}

fetch_binance_price(resp) ==
    IF resp.tag = "price" THEN Float(resp.val) ELSE None

\* The responses of one run, one per coin (a restriction of the inputs): BTC
\* answers anything, ETH fails or answers the price 1 independently of BTC,
\* and the other coins answer as BTC does.
Responses ==
    {[c \in CoinSet |-> IF c = "ETH" THEN eth ELSE btc] :
        btc \in PriceResponses, eth \in {Raises, NoPriceKey, PricePayload(1)}}

\* The runs in which ETH answers as BTC does, or fails
SameResponses ==
    {r \in Responses : r["ETH"] = r["BTC"] \/ r["ETH"] = Raises}

NoResponses == [c \in CoinSet |-> Raises]

NoInput   == [tag |-> "none", val |-> 0]
NotCalled == [kind |-> "none"]

isoformat(t) == [iso |-> t]
fromisoformat(s) == s.iso

\* A recorder that stores the numeric default 0.0 for a failed fetch
RecordValueDefault(price) == IF price.tag = "float" THEN price ELSE Float(0)

\* record["data"][coin] = price if isinstance(price, float) else "N/A"
RecordValue(price) == IF price.tag = "float" THEN price ELSE NA

RecordData(resp) ==
    [c \in CoinSet |-> RecordValue(fetch_binance_price(resp[c]))]

NoRecord == [timestamp |-> isoformat(0), data |-> [c \in {} |-> NA]]

-----------------------------------------------------------------------------
(* The file.  json.dump(existing_data, f, indent=4) writes "[", the        *)
(* records and "]" through a buffered file object: the disk holds a prefix *)
(* of the text until the file is closed.  A prefix is kept as the records  *)
(* it holds whole and whether the closing "]" is there; json.load accepts  *)
(* the text only when it is complete.                                      *)

Missing == [exists |-> FALSE, recs |-> <<>>, closed |-> FALSE]
Complete(recs) == [exists |-> TRUE, recs |-> recs, closed |-> TRUE]
Partial(recs)  == [exists |-> TRUE, recs |-> recs, closed |-> FALSE]
Truncated == Partial(<<>>)      \* open(DATA_FILENAME, "w")

Parsable(f) == f.exists /\ f.closed

IsPrefix(s, t) == Len(s) <= Len(t) /\ SubSeq(t, 1, Len(s)) = s

-----------------------------------------------------------------------------
(* post_daily_summary: the text it computes from the loaded records *)

\* max(prices), min(prices): one pass over the list
RECURSIVE MaxFrom(_, _, _)
MaxFrom(s, i, best) ==
    IF i > Len(s) THEN best
    ELSE MaxFrom(s, i + 1, IF s[i] > best THEN s[i] ELSE best)

RECURSIVE MinFrom(_, _, _)
MinFrom(s, i, best) ==
    IF i > Len(s) THEN best
    ELSE MinFrom(s, i + 1, IF s[i] < best THEN s[i] ELSE best)

max(s) == MaxFrom(s, 2, s[1])
min(s) == MinFrom(s, 2, s[1])

\* r for r in data_records if fromisoformat(r["timestamp"]) >= nine_hours_ago
InWindow(r, t) == fromisoformat(r.timestamp) >= t - WINDOW_HOURS

\* A summary that forgets the window and takes every record of the log
AllRecords(records, t) == records

recent_records(records, t) == SelectSeq(records, LAMBDA r : InWindow(r, t))

\* isinstance(r["data"].get(coin), (int, float))
IsNumber(v) == v.tag = "float"

\* The samples of one coin: its numeric entries, in the order of the records
prices(recent, coin) ==
    LET numeric == SelectSeq(recent, LAMBDA r : IsNumber(r.data[coin]))
    IN  [i \in 1..Len(numeric) |-> numeric[i].data[coin].val]

\* One row of the table.  change is (end - start) / start * 100 kept as the
\* fraction <<numerator, denominator>>, and 0 when start is 0.
NARow == [na |-> TRUE, start |-> 0, end |-> 0, high |-> 0, low |-> 0,
          change |-> <<0, 1>>]

\* A row whose End is taken from the first sample instead of the last
RowEndFirst(ps) ==
    IF ps # <<>>
    THEN [na |-> FALSE, start |-> ps[1], end |-> ps[1],
          high |-> max(ps), low |-> min(ps), change |-> <<0, ps[1]>>]
    ELSE NARow

Row(ps) ==
    IF ps # <<>>
    THEN LET start_price == ps[1]
             end_price   == ps[Len(ps)]
         IN  [na |-> FALSE, start |-> start_price, end |-> end_price,
              high |-> max(ps), low |-> min(ps),
              change |-> IF start_price # 0
                         THEN <<(end_price - start_price) * 100, start_price>>
                         ELSE <<0, 1>>]
    ELSE NARow

NoRows   == [c \in CoinSet |-> NARow]
NoText   == [kind |-> "none",   rows |-> NoRows]
NoDataText == [kind |-> "nodata", rows |-> NoRows]  \* "No data available for daily summary."
TableText(rows) == [kind |-> "table", rows |-> rows]

SummaryText(records, t) ==
    LET recent == recent_records(records, t)
    IN  IF recent = <<>>
        THEN NoDataText
        ELSE TableText([c \in CoinSet |-> Row(prices(recent, c))])

-----------------------------------------------------------------------------
(* record_crypto_data, a step at a time *)

\* timestamp = datetime.datetime.utcnow().isoformat()
RecordStart ==
    /\ wpc = "idle"
    /\ Len(file.recs) < MaxRecords
    /\ record' = [timestamp |-> isoformat(now), data |-> NoRecord.data]
    /\ preFile' = file
    /\ wpc' = "fetch"
    /\ UNCHANGED <<now, file, existing_data, lastAppended, rpc, data_records,
                   rload, rnow, summary_text, channel, tornRead>>
    /\ UNCHANGED <<responses, schedVars, chatVars, fnVars>>

\* for coin in TOP_COINS: record["data"][coin] = ...
RecordFetch(resp) ==
    /\ wpc = "fetch"
    /\ record' = [record EXCEPT !.data = RecordData(resp)]
    /\ responses' = resp
    /\ wpc' = "read"
    /\ UNCHANGED <<now, file, existing_data, preFile, lastAppended, rpc,
                   data_records, rload, rnow, summary_text, channel, tornRead>>
    /\ UNCHANGED <<schedVars, chatVars, fnVars>>

\* What the first try block leaves in existing_data: the list of the file, or
\* [] when the file is not there, cannot be read or cannot be parsed
LoadExisting(f, ioFails) ==
    IF ~f.exists THEN <<>>
    ELSE IF ioFails \/ ~Parsable(f) THEN <<>>
    ELSE f.recs

\* A recorder that puts the new record at the head of the list
PrependRecord(data, rec) == <<rec>> \o data

\* existing_data.append(record)
AppendRecord(data, rec) == Append(data, rec)

RecordRead(ioFails) ==
    /\ wpc = "read"
    /\ existing_data' = AppendRecord(LoadExisting(file, ioFails), record)
    /\ wpc' = "open"
    /\ UNCHANGED <<now, file, record, preFile, lastAppended, rpc, data_records,
                   rload, rnow, summary_text, channel, tornRead>>
    /\ UNCHANGED <<responses, schedVars, chatVars, fnVars>>

\* open(DATA_FILENAME, "w") truncates the file; when it raises, the error is
\* logged and the run ends
RecordOpen(fails) ==
    /\ wpc = "open"
    /\ IF fails
       THEN wpc' = "done" /\ file' = file
       ELSE wpc' = "dump" /\ file' = Truncated
    /\ UNCHANGED <<now, record, existing_data, preFile, lastAppended, rpc,
                   data_records, rload, rnow, summary_text, channel, tornRead>>
    /\ UNCHANGED <<responses, schedVars, chatVars, fnVars>>

\* The buffer is flushed while json.dump is still writing: the first k records
\* are on disk, the closing bracket is not
RecordFlush(k) ==
    /\ wpc = "dump"
    /\ k > Len(file.recs)
    /\ k <= Len(existing_data)
    /\ file' = Partial(SubSeq(existing_data, 1, k))
    /\ UNCHANGED <<now, wpc, record, existing_data, preFile, lastAppended, rpc,
                   data_records, rload, rnow, summary_text, channel, tornRead>>
    /\ UNCHANGED <<responses, schedVars, chatVars, fnVars>>

\* A write raises (disk full, I/O error): the with block closes the file as
\* it is, the error is logged and the run ends
RecordDumpFails ==
    /\ wpc = "dump"
    /\ wpc' = "done"
    /\ UNCHANGED <<now, file, record, existing_data, preFile, lastAppended,
                   rpc, data_records, rload, rnow, summary_text, channel,
                   tornRead>>
    /\ UNCHANGED <<responses, schedVars, chatVars, fnVars>>

\* json.dump returns and the with block closes the file
FileAfterDump(data) == Complete(data)

RecordClose ==
    /\ wpc = "dump"
    /\ file' = FileAfterDump(existing_data)
    /\ lastAppended' = record
    /\ wpc' = "done"
    /\ UNCHANGED <<now, record, existing_data, preFile, rpc, data_records,
                   rload, rnow, summary_text, channel, tornRead>>
    /\ UNCHANGED <<responses, schedVars, chatVars, fnVars>>

\* The function returns: its locals are gone
RecordReturn ==
    /\ wpc = "done"
    /\ wpc' = "idle"
    /\ record' = NoRecord
    /\ responses' = NoResponses
    /\ existing_data' = <<>>
    /\ preFile' = Missing
    /\ UNCHANGED <<now, file, lastAppended, rpc, data_records, rload, rnow,
                   summary_text, channel, tornRead>>
    /\ UNCHANGED <<schedVars, chatVars, fnVars>>

-----------------------------------------------------------------------------
(* post_daily_summary, a step at a time *)

\* A run of record_crypto_data is between its read and its end
Appending == wpc \in {"open", "dump"}

\* The file a reader finds is neither the log before the append under way
\* nor the log after it
Torn(f) == Appending /\ f # preFile /\ f # Complete(existing_data)

\* if os.path.exists(...): with open(...) as f: data_records = json.load(f)
SummaryLoad(ioFails) ==
    /\ rpc = "idle"
    /\ tornRead' = Torn(file)
    /\ IF ~file.exists
       THEN rload' = "missing" /\ rpc' = "done" /\ data_records' = <<>>
       ELSE IF ~Parsable(file)
       THEN rload' = "corrupt" /\ rpc' = "done" /\ data_records' = <<>>
       ELSE IF ioFails
       THEN rload' = "ioerror" /\ rpc' = "done" /\ data_records' = <<>>
       ELSE rload' = "ok" /\ rpc' = "loaded" /\ data_records' = file.recs
    /\ UNCHANGED <<now, file, wpc, record, existing_data, preFile,
                   lastAppended, rnow, summary_text, channel>>
    /\ UNCHANGED <<responses, schedVars, chatVars, fnVars>>

\* A summary that writes the log back with the records of the window only
SummaryPublishPruning(sendOK) ==
    /\ rpc = "loaded"
    /\ rnow' = now
    /\ summary_text' = SummaryText(data_records, now)
    /\ channel' = IF sendOK THEN summary_text' ELSE NoText
    /\ rpc' = "done"
    /\ file' = Complete(recent_records(data_records, now))
    /\ UNCHANGED <<now, wpc, record, existing_data, preFile,
                   lastAppended, data_records, rload, tornRead>>
    /\ UNCHANGED <<responses, schedVars, chatVars, fnVars>>

\* now = utcnow(); ...; app.send_message(CHANNEL_CHAT_ID, summary_text)
SummaryPublish(sendOK) ==
    /\ rpc = "loaded"
    /\ rnow' = now
    /\ summary_text' = SummaryText(data_records, now)
    /\ channel' = IF sendOK THEN summary_text' ELSE NoText
    /\ rpc' = "done"
    /\ UNCHANGED <<now, file, wpc, record, existing_data, preFile,
                   lastAppended, data_records, rload, tornRead>>
    /\ UNCHANGED <<responses, schedVars, chatVars, fnVars>>

SummaryReturn ==
    /\ rpc = "done"
    /\ rpc' = "idle"
    /\ data_records' = <<>>
    /\ rload' = "none"
    /\ rnow' = 0
    /\ summary_text' = NoText
    /\ channel' = NoText
    /\ tornRead' = FALSE
    /\ UNCHANGED <<now, file, wpc, record, existing_data, preFile,
                   lastAppended>>
    /\ UNCHANGED <<responses, schedVars, chatVars, fnVars>>

Tick ==
    /\ now + ClockStep <= MaxTime
    /\ now' = now + ClockStep
    /\ UNCHANGED <<file, wpc, record, existing_data, preFile, lastAppended,
                   rpc, data_records, rload, rnow, summary_text, channel,
                   tornRead>>
    /\ UNCHANGED <<responses, schedVars, chatVars, fnVars>>

-----------------------------------------------------------------------------
(* The scheduler: start_scheduler registers nine jobs with a               *)
(* BackgroundScheduler.  A tick of a job's trigger submits the job to the  *)
(* thread pool unless a run of the same job is still going (max_instances  *)
(* is 1); the pool runs the job function and catches whatever it raises.   *)

Jobs == {"post_top5_update", "post_crypto_news", "post_poll",
         "post_daily_summary", "record_crypto_data", "post_good_morning",
         "post_risk_meter", "post_ai_prediction", "post_fear_greed_index"}

MaxConcurrent == 2      \* runs going at the same time

\* How a run of each job function can end: "ok", "logged" (an error of its
\* fetch, format or publish step caught and logged by the function's own
\* try/except) or "raised" (an error outside every try of the function).
\*   post_crypto_news calls get_crypto_news_text() before its try, and that
\*     raises when a news entry is not an object;
\*   record_crypto_data appends outside its two try blocks, and that raises
\*     when the file holds JSON that is not a list;
\*   post_poll reads POLL_LIST, which is defined nowhere: every run ends in
\*     its except branch;
\*   the other functions run entirely inside a try/except Exception.
JobOutcomes(j) ==
    IF j \in {"post_crypto_news", "record_crypto_data"}
    THEN {"ok", "logged", "raised"}
    ELSE IF j = "post_poll" THEN {"logged"}
    ELSE {"ok", "logged"}

NoFailure == [job |-> "none", how |-> "none"]

Running == {j \in Jobs : jobState[j] = "Running"}

\* A scheduler that calls the job function unguarded: an error the function
\* raises ends the scheduler
AfterJobUnguarded(running, outcome) == running /\ outcome # "raised"

\* Whether the scheduler goes on after a run: the executor catches and logs
\* the error of a job, the scheduler is not told
AfterJob(running, outcome) == running

\* A tick of the trigger of job j: the run starts
JobTick(j) ==
    /\ schedulerRunning
    /\ jobState[j] = "Idle"
    /\ Cardinality(Running) < MaxConcurrent
    /\ jobState' = [jobState EXCEPT ![j] = "Running"]
    /\ ranSince' = IF failedJob = NoFailure THEN ranSince ELSE ranSince \cup {j}
    /\ UNCHANGED <<schedulerRunning, failedJob, logVars, fnVars, chatVars>>

\* The run of job j ends
JobEnd(j, outcome) ==
    /\ jobState[j] = "Running"
    /\ outcome \in JobOutcomes(j)
    /\ jobState' = [jobState EXCEPT ![j] = "Idle"]
    /\ schedulerRunning' = AfterJob(schedulerRunning, outcome)
    /\ IF outcome = "ok"
       THEN UNCHANGED <<failedJob, ranSince>>
       ELSE failedJob' = [job |-> j, how |-> outcome] /\ ranSince' = {}
    /\ UNCHANGED <<logVars, fnVars, chatVars>>

NextSched ==
    \/ \E j \in Jobs : JobTick(j)
    \/ \E j \in Jobs, outcome \in {"ok", "logged", "raised"} : JobEnd(j, outcome)

-----------------------------------------------------------------------------
(* The chats: user_states and user_portfolios are dicts keyed by chat id;   *)
(* a chat that is not a key has the value Absent.                           *)

MaxChats == 2   \* chats
MaxText  == 2   \* different texts a user may send

Chats == 1..MaxChats

\* A text message: its body, and whether blanks stand around it
Texts == [body : 1..MaxText, padded : BOOLEAN]

\* message.text.strip()
strip(text) == [body |-> text.body, padded |-> FALSE]

Absent == [body |-> 0, padded |-> FALSE]

Awaiting == {"awaiting_portfolio_update", "awaiting_coin_search"}

\* callback_query.data: the two buttons that set a pending state, and buttons
\* that do not
CallbackData ==
    {"update_portfolio", "coin_search", "back_to_menu", "my_portfolio",
     "live_prices"}

-----------------------------------------------------------------------------
(* Initial values of each part *)

InitLog ==
    /\ now = 0
    /\ file = Missing
    /\ wpc = "idle"
    /\ record = NoRecord
    /\ responses = NoResponses
    /\ existing_data = <<>>
    /\ preFile = Missing
    /\ lastAppended = NoRecord
    /\ rpc = "idle"
    /\ data_records = <<>>
    /\ rload = "none"
    /\ rnow = 0
    /\ summary_text = NoText
    /\ channel = NoText
    /\ tornRead = FALSE

InitSched ==
    /\ schedulerRunning = TRUE
    /\ jobState = [j \in Jobs |-> "Idle"]
    /\ failedJob = NoFailure
    /\ ranSince = {}

\* user_portfolios = {}, user_states = {}
InitChat ==
    /\ user_states = [c \in Chats |-> "none"]
    /\ user_portfolios = [c \in Chats |-> Absent]

InitFn ==
    /\ fnInput = NoInput
    /\ fnOutput = NotCalled
    /\ riskFile = Missing
    /\ riskPublished = <<>>
    /\ InitChat

-----------------------------------------------------------------------------
(* The recorder and the summary, one job at a time *)

NextLog ==
    \/ (rpc = "idle" /\ RecordStart)
    \/ \E resp \in Responses : RecordFetch(resp)
    \/ \E ioFails \in BOOLEAN : RecordRead(ioFails)
    \/ \E fails \in BOOLEAN : RecordOpen(fails)
    \/ \E k \in 1..MaxRecords : RecordFlush(k)
    \/ RecordDumpFails
    \/ RecordClose
    \/ RecordReturn
    \/ \E ioFails \in BOOLEAN : (wpc = "idle" /\ SummaryLoad(ioFails))
    \/ \E sendOK \in BOOLEAN : SummaryPublish(sendOK)
    \/ SummaryReturn
    \/ Tick

InitLogSpec == InitLog /\ InitSched /\ InitFn

SpecLog == InitLogSpec /\ [][NextLog]_vars

(* The recorder and the summary as two jobs of the thread pool *)

NextConc ==
    \/ RecordStart
    \/ \E resp \in SameResponses : RecordFetch(resp)
    \/ \E ioFails \in BOOLEAN : RecordRead(ioFails)
    \/ \E fails \in BOOLEAN : RecordOpen(fails)
    \/ \E k \in 1..MaxRecords : RecordFlush(k)
    \/ RecordDumpFails
    \/ RecordClose
    \/ RecordReturn
    \/ \E ioFails \in BOOLEAN : SummaryLoad(ioFails)
    \/ \E sendOK \in BOOLEAN : SummaryPublish(sendOK)
    \/ SummaryReturn
    \/ Tick

InitConcSpec == InitLog /\ InitSched /\ InitFn

SpecConc == InitConcSpec /\ [][NextConc]_vars

InitSchedSpec == InitLog /\ InitSched /\ InitFn

SpecSched == InitSchedSpec /\ [][NextSched]_vars

-----------------------------------------------------------------------------
(* The claim about the scheduler *)

-----------------------------------------------------------------------------
(* The claims about the recorder and the summary *)

Last(s) == s[Len(s)]

\* The records of the loaded list that are inside the window of the run and
\* hold a number for the coin, by their place in the list
PresentAt(coin) ==
    {i \in DOMAIN data_records :
        /\ fromisoformat(data_records[i].timestamp) + WINDOW_HOURS >= rnow
        /\ data_records[i].data[coin] \in {Float(p) : p \in 0..MaxPrice}}

InsideAt ==
    {i \in DOMAIN data_records :
        fromisoformat(data_records[i].timestamp) + WINDOW_HOURS >= rnow}

SampleAt(i, coin) == data_records[i].data[coin].val

Least(S) == CHOOSE i \in S : \A j \in S : i <= j
Greatest(S) == CHOOSE i \in S : \A j \in S : i >= j

\* C2 (as claimed): the log is append-only.  When a run of record_crypto_data
\* has ended, whether or not its read or its write failed, the records the
\* file held when the run started are an unchanged prefix of the records it
\* holds now.
C2_AppendOnly ==
    wpc = "done" => IsPrefix(preFile.recs, file.recs)

\* C3 (as claimed): a summary that loads the file while an append is under
\* way finds the complete log as it was before the append or the complete log
\* after it, never an empty, truncated or partly written file.
C3_ReaderSeesPreOrPost ==
    rload # "none" => ~tornRead

\* C4 (as claimed): a run of post_daily_summary that finds the file missing or
\* unparsable ends as a run on a log of zero records does: it computes the
\* "no data" report and sends it.
C4_MissingOrCorruptAsEmpty ==
    (rpc = "done" /\ rload \in {"missing", "corrupt"})
        => summary_text = SummaryText(<<>>, now)

\* The summary ran on a log whose last record is the one just appended, and
\* that record is inside the window of the run
JustAppended ==
    /\ rpc = "done"
    /\ rload = "ok"
    /\ data_records # <<>>
    /\ Last(data_records) = lastAppended
    /\ fromisoformat(lastAppended.timestamp) + WINDOW_HOURS >= rnow

\* C5 (as claimed): recorder round trip.  When the summary runs right after an
\* append, then for every coin whose price is present in the appended record
\* the Start and the End of its row both equal that price, whatever the log
\* held before.
C5_RoundTrip ==
    JustAppended =>
        \A c \in CoinSet :
            lastAppended.data[c].tag = "float" =>
                /\ ~summary_text.rows[c].na
                /\ summary_text.rows[c].start = lastAppended.data[c].val
                /\ summary_text.rows[c].end = lastAppended.data[c].val

\* C5 (amended): when the summary runs right after an append, then for every
\* coin whose price is present in the appended record the End of its row is
\* that price, and the Start is the price of the earliest record inside the
\* window that holds a number for the coin: the appended price exactly when no
\* earlier record inside the window holds one.
C5_RoundTripAmended ==
    JustAppended =>
        \A c \in CoinSet :
            lastAppended.data[c].tag = "float" =>
                /\ summary_text.kind = "table"
                /\ ~summary_text.rows[c].na
                /\ summary_text.rows[c].end = lastAppended.data[c].val
                /\ PresentAt(c) # {}
                /\ summary_text.rows[c].start = SampleAt(Least(PresentAt(c)), c)
                /\ (PresentAt(c) = {Len(data_records)}
                        => summary_text.rows[c].start = lastAppended.data[c].val)

\* C5 witness: the summary ran right after an append on a log that already
\* held a record inside the window with another price of BTC, so that Start
\* is the older price and End the appended one.
C5_Witness ==
    /\ JustAppended
    /\ lastAppended.data["BTC"].tag = "float"
    /\ Cardinality(PresentAt("BTC")) >= 2
    /\ summary_text.rows["BTC"].start # summary_text.rows["BTC"].end
    /\ summary_text.rows["BTC"].end = lastAppended.data["BTC"].val

\* What the claim says of the row of one coin
RowAsClaimed(c) ==
    IF PresentAt(c) = {}
    THEN summary_text.rows[c].na
    ELSE /\ ~summary_text.rows[c].na
         /\ summary_text.rows[c].start = SampleAt(Least(PresentAt(c)), c)
         /\ summary_text.rows[c].end = SampleAt(Greatest(PresentAt(c)), c)
         /\ \E i \in PresentAt(c) : summary_text.rows[c].high = SampleAt(i, c)
         /\ \A i \in PresentAt(c) : summary_text.rows[c].high >= SampleAt(i, c)
         /\ \E i \in PresentAt(c) : summary_text.rows[c].low = SampleAt(i, c)
         /\ \A i \in PresentAt(c) : summary_text.rows[c].low <= SampleAt(i, c)

\* C6 (as claimed): for every log the summary loads, the report is the table,
\* in which a coin with no present sample inside the window has N/A in every
\* column and every other coin has the first, last, greatest and least of its
\* own present samples inside the window; also when the window holds only
\* sentinels and when it holds no record at all.
C6_SummaryRows ==
    (rpc = "done" /\ rload = "ok") =>
        /\ summary_text.kind = "table"
        /\ \A c \in CoinSet : RowAsClaimed(c)

\* C6 (amended): the same for every log with at least one record inside the
\* window; when no record is inside the window the report is the line
\* "No data available for daily summary." and has no table.
C6_SummaryRowsAmended ==
    (rpc = "done" /\ rload = "ok") =>
        IF InsideAt = {}
        THEN summary_text = NoDataText
        ELSE /\ summary_text.kind = "table"
             /\ \A c \in CoinSet : RowAsClaimed(c)

\* C6 witness: a table in which ETH has no present sample (N/A row) while BTC
\* has two different samples inside the window.
C6_Witness ==
    /\ rpc = "done"
    /\ summary_text.kind = "table"
    /\ summary_text.rows["ETH"].na
    /\ ~summary_text.rows["BTC"].na
    /\ summary_text.rows["BTC"].high # summary_text.rows["BTC"].low

\* C6 witness of the other case: the log holds records, none inside the window
C6_WitnessNoData ==
    /\ rpc = "done"
    /\ rload = "ok"
    /\ data_records # <<>>
    /\ summary_text = NoDataText

\* The values a record may hold: a fetched price or the sentinel
StoredValues == {NA} \cup {Float(p) : p \in Prices}

WellFormed(r) ==
    /\ DOMAIN r.data = CoinSet
    /\ \A c \in CoinSet : r.data[c] \in StoredValues

\* C7: every record the recorder builds and appends has an entry for each
\* coin of TOP_COINS and no other: the fetched price when the fetch of the
\* coin succeeded, the sentinel "N/A" when it failed, never a numeric default.
C7_RecordHasEveryCoin ==
    /\ \A i \in DOMAIN file.recs : WellFormed(file.recs[i])
    /\ wpc \in {"read", "open", "dump", "done"} =>
          /\ WellFormed(record)
          /\ \A c \in CoinSet :
                IF responses[c].tag = "price"
                THEN record.data[c] = Float(responses[c].val)
                ELSE record.data[c] = NA
    /\ wpc \in {"open", "dump", "done"} => Last(existing_data) = record
    /\ (wpc = "done" /\ Parsable(file) /\ file # preFile)
          => Last(file.recs) = record

\* C7 witness: a run has written a record in which the fetch of BTC succeeded
\* and the fetch of ETH failed
C7_Witness ==
    /\ wpc = "done"
    /\ Parsable(file)
    /\ file # preFile
    /\ Last(file.recs).data["BTC"].tag = "float"
    /\ Last(file.recs).data["ETH"] = NA
    /\ responses["ETH"] = NoPriceKey

-----------------------------------------------------------------------------
(* get_live_trading_signal.  A percent change is kept in units of 1/PctScale *)
(* of a percent: float("2.00") is 2 * PctScale.                              *)

PctScale  == 100    \* units per percent
MaxChange == 300    \* percent changes are -MaxChange..MaxChange units

\* fetch_binance_ticker: None when the request raises, else the decoded
\* payload as it is: without "priceChangePercent" (an error object, or an
\* empty value), with a value float() rejects, with a number, or a payload
\* that is no container at all (a JSON number or true), which the function
\* returns like any other
TickerFailed   == [tag |-> "None",    val |-> 0]
TickerNoChange == [tag |-> "nokey",   val |-> 0]
TickerBadChange == [tag |-> "badnum", val |-> 0]
TickerScalar   == [tag |-> "scalar",  val |-> 0]
TickerChange(v) == [tag |-> "change", val |-> v]

TickerResponses ==
    {TickerFailed, TickerNoChange, TickerBadChange, TickerScalar}
        \cup {TickerChange(v) : v \in -MaxChange..MaxChange}

\* A classifier whose thresholds are inclusive
SignalInclusive(change) ==
    IF change >= 2 * PctScale THEN "Strong Buy"
    ELSE IF change <= -2 * PctScale THEN "Strong Sell"
    ELSE "Hold"

\* if change > 2 ... elif change < -2 ... else ...
Signal(change) ==
    IF change > 2 * PctScale THEN "Strong Buy"
    ELSE IF change < -2 * PctScale THEN "Strong Sell"
    ELSE "Hold"

\* `if ticker and "priceChangePercent" in ticker` stands before the try: on a
\* payload that is no container the test itself raises TypeError
get_live_trading_signal(ticker) ==
    IF ticker.tag = "scalar"
    THEN [kind |-> "raised", signal |-> "", change |-> 0]
    ELSE IF ticker.tag \in {"change", "badnum"}
    THEN IF ticker.tag = "change"
         THEN [kind |-> "signal", signal |-> Signal(ticker.val),
               change |-> ticker.val]
         ELSE [kind |-> "error", signal |-> "", change |-> 0]
    ELSE [kind |-> "unavailable", signal |-> "", change |-> 0]

\* The callback "signal_<coin>": the ticker is fetched and the text computed
TradingSignal(ticker) ==
    /\ fnOutput = NotCalled
    /\ fnInput' = ticker
    /\ fnOutput' = get_live_trading_signal(ticker)
    /\ UNCHANGED <<riskFile, riskPublished, logVars, schedVars, chatVars>>

\* The text has been shown; the next callback may come
CallReturns ==
    /\ fnOutput # NotCalled
    /\ fnInput' = NoInput
    /\ fnOutput' = NotCalled
    /\ UNCHANGED <<riskFile, riskPublished, logVars, schedVars, chatVars>>

NextSignal ==
    \/ \E ticker \in TickerResponses : TradingSignal(ticker)
    \/ CallReturns

InitSignalSpec == InitLog /\ InitSched /\ InitFn

SpecSignal == InitSignalSpec /\ [][NextSignal]_vars

\* C8: for every 24h percent change v the signal is "Strong Buy" iff v > 2,
\* "Strong Sell" iff v < -2 and "Hold" otherwise; exactly +2 and exactly -2
\* are "Hold".
C8_SignalThresholds ==
    fnInput.tag = "change" =>
        LET v == fnInput.val
        IN  /\ fnOutput.kind = "signal"
            /\ fnOutput.change = v
            /\ fnOutput.signal \in {"Strong Buy", "Strong Sell", "Hold"}
            /\ (fnOutput.signal = "Strong Buy" <=> v > 2 * PctScale)
            /\ (fnOutput.signal = "Strong Sell" <=> v < -2 * PctScale)
            /\ (fnOutput.signal = "Hold"
                    <=> (v >= -2 * PctScale /\ v <= 2 * PctScale))
            /\ (v \in {2 * PctScale, -2 * PctScale} => fnOutput.signal = "Hold")

\* C8 witness: a change of exactly +2 percent was classified "Hold"
C8_Witness ==
    /\ fnInput = TickerChange(2 * PctScale)
    /\ fnOutput.kind = "signal"
    /\ fnOutput.signal = "Hold"

-----------------------------------------------------------------------------
(* post_risk_meter *)

MaxIndex == 100     \* the sentiment index is 0..MaxIndex

\* requests.get(...).json() of /fng/?limit=1: the call raises; or the payload
\* is empty, has no "data" or an empty "data" list; or the first entry has no
\* "value"; or a value int() rejects; or it has the value s
FngRaises   == [tag |-> "raise",   val |-> 0]
FngNoData   == [tag |-> "nodata",  val |-> 0]
FngNoValue  == [tag |-> "novalue", val |-> 0]
FngBadValue == [tag |-> "badint",  val |-> 0]
FngValue(s) == [tag |-> "value",   val |-> s]

FngResponses ==
    {FngRaises, FngNoData, FngNoValue, FngBadValue}
        \cup {FngValue(s) : s \in 0..MaxIndex}

\* get_ai_predictions() returns the table of the top 5 coins or its error text
LiveSignals == {"table", "Error fetching AI predictions."}

IntValue(n) == [tag |-> "int", val |-> n]

\* A risk meter that counts 25 as high and 50 as medium
RiskLevelInclusive(value) ==
    IF value <= 25 THEN "High Risk"
    ELSE IF 25 < value /\ value <= 50 THEN "Medium Risk"
    ELSE "Low Risk"

\* if value < 25 ... elif 25 <= value < 50 ... else ...
RiskLevel(value) ==
    IF value < 25 THEN "High Risk"
    ELSE IF 25 <= value /\ value < 50 THEN "Medium Risk"
    ELSE "Low Risk"

\* combined_message: the risk table and the live signal
RiskMessage(resp, live) ==
    IF resp.tag = "value"
    THEN [risk_level |-> RiskLevel(resp.val), value |-> IntValue(resp.val),
          live |-> live]
    ELSE [risk_level |-> "N/A", value |-> NA, live |-> live]

Logged == [kind |-> "logged"]

\* A risk meter that, like the price log, starts the file again from the new
\* snapshot when it cannot read it
RiskFileRestart(f, snapshot, readFails, writeOutcome, k) ==
    LET existing_risk ==
            Append(IF f.exists /\ ~readFails /\ Parsable(f) THEN f.recs ELSE <<>>,
                   snapshot)
    IN  IF writeOutcome = "openfails" THEN f
        ELSE IF writeOutcome = "dumpfails"
        THEN Partial(SubSeq(existing_risk, 1, k))
        ELSE Complete(existing_risk)

\* risk_meter.json after the run has sent its message: the list of the file
\* with the snapshot appended, unless reading it raises (the file stays) or
\* writing it raises (the file stays, or is left cut at k snapshots)
RiskFileAfter(f, snapshot, readFails, writeOutcome, k) ==
    IF f.exists /\ (readFails \/ ~Parsable(f)) THEN f
    ELSE LET existing_risk == Append(IF f.exists THEN f.recs ELSE <<>>, snapshot)
         IN  IF writeOutcome = "openfails" THEN f
             ELSE IF writeOutcome = "dumpfails"
             THEN Partial(SubSeq(existing_risk, 1, k))
             ELSE Complete(existing_risk)

\* How the run ended after its send: "Risk meter data updated in JSON file."
\* or the error of the read or of the write
Persisted(f, readFails, writeOutcome) ==
    IF f.exists /\ (readFails \/ ~Parsable(f)) THEN "readfails"
    ELSE writeOutcome

\* One run of post_risk_meter
PostRiskMeter(resp, live, sendOK, readFails, writeOutcome, k) ==
    /\ fnOutput = NotCalled
    /\ fnInput' = resp
    /\ IF resp.tag \in {"raise", "novalue", "badint"}
       THEN /\ fnOutput' = Logged
            /\ UNCHANGED <<riskFile, riskPublished>>
       ELSE LET combined_message == RiskMessage(resp, live)
                risk_data == [timestamp |-> isoformat(now),
                              risk_message |-> combined_message]
            IN  /\ fnOutput' = [kind |-> "risk", message |-> combined_message,
                                sent |-> sendOK,
                                persisted |->
                                    IF sendOK
                                    THEN Persisted(riskFile, readFails,
                                                   writeOutcome)
                                    ELSE "notsent"]
                /\ IF sendOK
                   THEN /\ riskPublished' = Append(riskPublished, combined_message)
                        /\ k \in 0..(Len(riskFile.recs) + 1)
                        /\ riskFile' = RiskFileAfter(riskFile, risk_data,
                                                     readFails, writeOutcome, k)
                   ELSE UNCHANGED <<riskFile, riskPublished>>
    /\ UNCHANGED <<logVars, schedVars, chatVars>>

\* The first run after a start without risk_meter.json, for every answer of
\* the index
NextRisk ==
    \/ \E resp \in FngResponses, live \in LiveSignals, sendOK \in BOOLEAN,
          readFails \in BOOLEAN,
          writeOutcome \in {"ok", "openfails", "dumpfails"}, k \in 0..1 :
            /\ riskPublished = <<>>
            /\ PostRiskMeter(resp, live, sendOK, readFails, writeOutcome, k)
    \/ CallReturns

InitRiskSpec == InitLog /\ InitSched /\ InitFn

SpecRisk == InitRiskSpec /\ [][NextRisk]_vars

\* C9: for every sentiment value s of the index the risk level is "High Risk"
\* iff s < 25, "Medium Risk" iff 25 <= s < 50 and "Low Risk" iff s >= 50.
C9_RiskLevels ==
    fnInput.tag = "value" =>
        LET s == fnInput.val
        IN  /\ fnOutput.kind = "risk"
            /\ fnOutput.message.value = IntValue(s)
            /\ fnOutput.message.risk_level
                   \in {"High Risk", "Medium Risk", "Low Risk"}
            /\ (fnOutput.message.risk_level = "High Risk" <=> s < 25)
            /\ (fnOutput.message.risk_level = "Medium Risk"
                    <=> (25 <= s /\ s < 50))
            /\ (fnOutput.message.risk_level = "Low Risk" <=> s >= 50)

\* C9 witness: the index 25 was posted as "Medium Risk"
C9_Witness ==
    /\ fnInput = FngValue(25)
    /\ fnOutput.kind = "risk"
    /\ fnOutput.sent
    /\ fnOutput.message.risk_level = "Medium Risk"
    /\ riskPublished = <<fnOutput.message>>

-----------------------------------------------------------------------------
(* get_top_gainers_losers *)

MaxTickers   == 6   \* tickers in a snapshot
MaxTopChange == 1   \* their percent changes are -1..MaxTopChange

TOP_N == 5          \* usdt_tickers[:5], usdt_tickers[-5:]

\* A ticker of the snapshot.  Its symbol is a base, here the place of the
\* ticker in the snapshot, followed by the quote currency; its
\* priceChangePercent is a number or is missing.
ChangeMissing == [tag |-> "missing", val |-> 0]

TickerChanges == {TickerChange(v) : v \in -1..MaxTopChange}

TickerAt(i, quote, change) ==
    [symbol |-> [base |-> i, quote |-> quote], priceChangePercent |-> change]

\* What the ticker at place i of a snapshot may be (a restriction of the
\* inputs): quoted in USDT with a change; at the first place also quoted in
\* USDT without priceChangePercent, or quoted in BTC with the greatest change
TickerKinds(i) ==
    {[quote |-> "USDT", change |-> c] : c \in TickerChanges}
        \cup (IF i = 1
              THEN {[quote |-> "USDT", change |-> ChangeMissing],
                    [quote |-> "BTC", change |-> TickerChange(MaxTopChange)]}
              ELSE {})

\* The snapshots of n tickers, built a place at a time
RECURSIVE SnapshotsOfLen(_)
SnapshotsOfLen(n) ==
    IF n = 0
    THEN {<<>>}
    ELSE {Append(s, TickerAt(n, k.quote, k.change)) :
              s \in SnapshotsOfLen(n - 1), k \in TickerKinds(n)}

\* The snapshot BTC +3.5%, ETH -3.0%, BNB +0.1%, ADA -5.0%, XRP +0.2%, its
\* changes in tenths of a percent
ExampleCoins == <<"BTC", "ETH", "BNB", "ADA", "XRP">>

ExampleChanges == <<35, -30, 1, -50, 2>>

ExampleSnapshot ==
    [i \in 1..Len(ExampleCoins) |->
        TickerAt(i, "USDT", TickerChange(ExampleChanges[i]))]

\* t.get("symbol", "").endswith("USDT")
EndsWithUSDT(t) == t.symbol.quote = "USDT"

\* float(t.get("priceChangePercent", "0"))
ChangeKey(t) ==
    IF t.priceChangePercent.tag = "missing" THEN 0
    ELSE t.priceChangePercent.val

\* list.sort(key=...): a stable sort, ascending.  Each element goes after
\* the elements already placed whose key is not greater.
InsertAscending(sorted, x) ==
    LET after == {i \in 1..Len(sorted) : ChangeKey(sorted[i]) > ChangeKey(x)}
        k == IF after = {} THEN Len(sorted) + 1
             ELSE CHOOSE i \in after : \A j \in after : i <= j
    IN  SubSeq(sorted, 1, k - 1) \o <<x>> \o SubSeq(sorted, k, Len(sorted))

RECURSIVE SortAscending(_)
SortAscending(s) ==
    IF s = <<>> THEN <<>>
    ELSE InsertAscending(SortAscending(SubSeq(s, 1, Len(s) - 1)), s[Len(s)])

\* A descending sort that puts an element before those of equal key
InsertDescendingFirst(sorted, x) ==
    LET after == {i \in 1..Len(sorted) : ChangeKey(sorted[i]) <= ChangeKey(x)}
        k == IF after = {} THEN Len(sorted) + 1
             ELSE CHOOSE i \in after : \A j \in after : i <= j
    IN  SubSeq(sorted, 1, k - 1) \o <<x>> \o SubSeq(sorted, k, Len(sorted))

\* sorted(..., key=..., reverse=True): a stable sort, descending.  Elements
\* of equal key keep the order they had.
InsertDescending(sorted, x) ==
    LET after == {i \in 1..Len(sorted) : ChangeKey(sorted[i]) < ChangeKey(x)}
        k == IF after = {} THEN Len(sorted) + 1
             ELSE CHOOSE i \in after : \A j \in after : i <= j
    IN  SubSeq(sorted, 1, k - 1) \o <<x>> \o SubSeq(sorted, k, Len(sorted))

RECURSIVE SortDescending(_)
SortDescending(s) ==
    IF s = <<>> THEN <<>>
    ELSE InsertDescending(SortDescending(SubSeq(s, 1, Len(s) - 1)), s[Len(s)])

\* s[:n] and s[-n:]
FirstN(s, n) == SubSeq(s, 1, IF Len(s) < n THEN Len(s) ELSE n)
LastN(s, n)  == SubSeq(s, IF Len(s) < n THEN 1 ELSE Len(s) - n + 1, Len(s))

usdt_tickers(tickers) == SortAscending(SelectSeq(tickers, EndsWithUSDT))

\* Gainers taken from the slice as it is, without the second sort
GainersNotSorted(tickers) == LastN(usdt_tickers(tickers), TOP_N)

top5_gainers(tickers) == SortDescending(LastN(usdt_tickers(tickers), TOP_N))

\* Losers cut one short of the slice
LosersOneShort(tickers) == FirstN(usdt_tickers(tickers), TOP_N - 1)

top5_losers(tickers) == FirstN(usdt_tickers(tickers), TOP_N)

\* One line of a table: the coin and its change
\* and the cell that shows it: f"{change:>6.2f}%", always a number
TableLine(t) ==
    [coin |-> t.symbol.base, change |-> ChangeKey(t),
     shown |-> Float(ChangeKey(t))]

TableOf(s) == [i \in 1..Len(s) |-> TableLine(s[i])]

ErrorText == [kind |-> "error", gainers |-> <<>>, losers |-> <<>>]

\* The snapshot is the decoded list, or the request raised
SnapshotRaises == [tag |-> "raise", list |-> <<>>]
SnapshotOf(s)  == [tag |-> "list",  list |-> s]

get_top_gainers_losers(resp) ==
    IF resp.tag = "raise" THEN ErrorText
    ELSE [kind |-> "tables",
          gainers |-> TableOf(top5_gainers(resp.list)),
          losers  |-> TableOf(top5_losers(resp.list))]

\* The callback "top_gainers_losers"
TopGainersLosers ==
    /\ fnOutput = NotCalled
    /\ fnInput.tag \in {"list", "raise"}
    /\ fnOutput' = get_top_gainers_losers(fnInput)
    /\ UNCHANGED <<fnInput, riskFile, riskPublished, logVars, schedVars, chatVars>>

NextMovers == TopGainersLosers

InitMoversSpec ==
    /\ InitLog
    /\ InitSched
    /\ \/ fnInput = SnapshotRaises
       \/ fnInput = SnapshotOf(ExampleSnapshot)
       \/ \E n \in 0..MaxTickers :
             \E s \in SnapshotsOfLen(n) : fnInput = SnapshotOf(s)
    /\ fnOutput = NotCalled
    /\ riskFile = Missing
    /\ riskPublished = <<>>
    /\ InitChat

SpecMovers == InitMoversSpec /\ [][NextMovers]_vars

\* The USDT tickers of the snapshot, by their place in it, and their changes
UsdtPlaces == {i \in DOMAIN fnInput.list : fnInput.list[i].symbol.quote = "USDT"}

ChangeAt(i) == fnInput.list[i].priceChangePercent.val

EveryChangePresent ==
    \A i \in UsdtPlaces : fnInput.list[i].priceChangePercent.tag = "change"

Smaller(a, b) == IF a < b THEN a ELSE b

CoinsOf(table) == {table[i].coin : i \in DOMAIN table}

\* C10: for every snapshot of N USDT tickers, each with its percent change,
\* the function returns without error; the gainers are min(5, N) different
\* USDT tickers of the snapshot, listed with their own change in descending
\* order, and no ticker left out has a greater change than one listed; the
\* losers are min(5, N) different USDT tickers in ascending order, and no
\* ticker left out has a smaller change than one listed.
C10_TopGainersLosers ==
    (fnOutput # NotCalled /\ fnInput.tag = "list" /\ EveryChangePresent) =>
        LET n == Cardinality(UsdtPlaces)
            g == fnOutput.gainers
            l == fnOutput.losers
        IN  /\ fnOutput.kind = "tables"
            /\ Len(g) = Smaller(TOP_N, n)
            /\ Len(l) = Smaller(TOP_N, n)
            /\ Cardinality(CoinsOf(g)) = Len(g)
            /\ Cardinality(CoinsOf(l)) = Len(l)
            /\ CoinsOf(g) \subseteq UsdtPlaces
            /\ CoinsOf(l) \subseteq UsdtPlaces
            /\ \A i \in DOMAIN g : g[i].change = ChangeAt(g[i].coin)
            /\ \A i \in DOMAIN l : l[i].change = ChangeAt(l[i].coin)
            /\ \A i, j \in DOMAIN g : i < j => g[i].change >= g[j].change
            /\ \A i, j \in DOMAIN l : i < j => l[i].change <= l[j].change
            /\ \A out \in UsdtPlaces \ CoinsOf(g) :
                  \A in \in CoinsOf(g) : ChangeAt(out) <= ChangeAt(in)
            /\ \A out \in UsdtPlaces \ CoinsOf(l) :
                  \A in \in CoinsOf(l) : ChangeAt(out) >= ChangeAt(in)

\* C10 witness: a snapshot of six USDT tickers with three different changes,
\* of which five are listed as gainers and five as losers
C10_Witness ==
    /\ fnOutput # NotCalled
    /\ fnInput.tag = "list"
    /\ EveryChangePresent
    /\ Cardinality(UsdtPlaces) = TOP_N + 1
    /\ Cardinality({ChangeAt(i) : i \in UsdtPlaces}) >= 3
    /\ Len(fnOutput.gainers) = TOP_N
    /\ Len(fnOutput.losers) = TOP_N
    /\ CoinsOf(fnOutput.gainers) # CoinsOf(fnOutput.losers)

\* C10 witness of the short case: a snapshot of one ticker, not in USDT, and
\* two empty tables
C10_WitnessEmpty ==
    /\ fnOutput # NotCalled
    /\ fnInput.tag = "list"
    /\ Len(fnInput.list) = 1
    /\ UsdtPlaces = {}
    /\ fnOutput.kind = "tables"
    /\ fnOutput.gainers = <<>>

-----------------------------------------------------------------------------
(* The five-ticker example *)

\* The names of the coins a table lists, in its order
NamesOf(table) == [i \in DOMAIN table |-> ExampleCoins[table[i].coin]]

\* C11 as stated: for the five-ticker snapshot the gainers are exactly
\* BTC, XRP, BNB in that order and the losers exactly ADA, ETH in that order,
\* so that no instrument is in both tables.
C11_ExampleTables ==
    (fnInput = SnapshotOf(ExampleSnapshot) /\ fnOutput # NotCalled) =>
        /\ fnOutput.kind = "tables"
        /\ NamesOf(fnOutput.gainers) = <<"BTC", "XRP", "BNB">>
        /\ NamesOf(fnOutput.losers) = <<"ADA", "ETH">>
        /\ CoinsOf(fnOutput.gainers) \cap CoinsOf(fnOutput.losers) = {}

\* C11 amended: for the five-ticker snapshot the gainers are all five
\* tickers in descending order, BTC, XRP, BNB, ETH, ADA, and the losers all
\* five in ascending order, ADA, ETH, BNB, XRP, BTC, each with its own change;
\* every instrument is in both tables.
C11_ExampleTablesAmended ==
    (fnInput = SnapshotOf(ExampleSnapshot) /\ fnOutput # NotCalled) =>
        /\ fnOutput.kind = "tables"
        /\ NamesOf(fnOutput.gainers) = <<"BTC", "XRP", "BNB", "ETH", "ADA">>
        /\ NamesOf(fnOutput.losers) = <<"ADA", "ETH", "BNB", "XRP", "BTC">>
        /\ \A i \in DOMAIN fnOutput.gainers :
              fnOutput.gainers[i].change = ExampleChanges[fnOutput.gainers[i].coin]
        /\ \A i \in DOMAIN fnOutput.losers :
              fnOutput.losers[i].change = ExampleChanges[fnOutput.losers[i].coin]
        /\ CoinsOf(fnOutput.gainers) = CoinsOf(fnOutput.losers)

\* C11 witness: the tables of the five-ticker snapshot have been computed
C11_Witness ==
    /\ fnInput = SnapshotOf(ExampleSnapshot)
    /\ fnOutput.kind = "tables"
    /\ Len(fnOutput.gainers) = Len(ExampleCoins)

-----------------------------------------------------------------------------
(* The market data client and its callers *)

NEWS_LIMIT == 3     \* fetch_cryptopanic_news(api_key, limit=3)
MaxNews == 4        \* entries in the "results" of a news answer

\* The tickers the callers are tried on: one of each shape
CallerTickers ==
    {TickerFailed, TickerNoChange, TickerBadChange, TickerScalar,
     TickerChange(PctScale)}

\* One ticker per coin (a restriction of the inputs): BTC and ETH answer
\* independently, the other coins as BTC does
TickersPerCoin ==
    {[c \in CoinSet |-> IF c = "ETH" THEN eth ELSE btc] :
        btc \in CallerTickers, eth \in CallerTickers}

\* One line of the trends text
TrendLine(ticker) ==
    IF ticker.tag = "change" THEN [tag |-> "change", val |-> ticker.val]
    ELSE IF ticker.tag = "badnum" THEN [tag |-> "Data error", val |-> 0]
    ELSE [tag |-> "N/A", val |-> 0]

\* get_market_trends: the loop has no try around the test of the ticker
get_market_trends(tickers) ==
    IF \E c \in CoinSet : tickers[c].tag = "scalar"
    THEN [kind |-> "raised"]
    ELSE [kind |-> "trends", lines |-> [c \in CoinSet |-> TrendLine(tickers[c])]]

\* The answer of the news service: the request raises or the text is not
\* JSON; the payload is not an object; it has no "results"; its "results"
\* cannot be sliced (null, a number); or "results" is a list of entries, each
\* an object (a post, with or without a title) or not an object
NewsRaises     == [tag |-> "raise",     results |-> <<>>]
NewsNotObject  == [tag |-> "notobject", results |-> <<>>]
NewsNoResults  == [tag |-> "noresults", results |-> <<>>]
NewsBadResults == [tag |-> "noslice",   results |-> <<>>]
NewsResults(r) == [tag |-> "results",   results |-> r]

NewsEntries == {"post", "untitled", "scalar"}

RECURSIVE ResultsOfLen(_)
ResultsOfLen(n) ==
    IF n = 0 THEN {<<>>}
    ELSE {Append(r, e) : r \in ResultsOfLen(n - 1), e \in NewsEntries}

\* data.get("results", [])[:limit], and [] when anything raises
fetch_cryptopanic_news(resp) ==
    IF resp.tag = "results" THEN FirstN(resp.results, NEWS_LIMIT) ELSE <<>>

\* post.get("title", "No Title")
NewsLine(post) == IF post = "post" THEN "title" ELSE "No Title"

\* get_crypto_news_text: post.get raises on an entry that is not an object,
\* and nothing catches it
NewsTextOf(posts) ==
    IF posts = <<>> THEN [kind |-> "nonews", lines |-> <<>>]
    ELSE IF \E i \in DOMAIN posts : posts[i] = "scalar"
    THEN [kind |-> "raised", lines |-> <<>>]
    ELSE [kind |-> "news", lines |-> [i \in DOMAIN posts |-> NewsLine(posts[i])]]

get_crypto_news_text(resp) == NewsTextOf(fetch_cryptopanic_news(resp))

\* post_crypto_news: the text is computed before the try, the send inside it
post_crypto_news(resp, sendOK) ==
    LET news_text == get_crypto_news_text(resp)
    IN  IF news_text.kind = "raised"
        THEN [kind |-> "job", outcome |-> "raised", published |-> NotCalled]
        ELSE IF sendOK
        THEN [kind |-> "job", outcome |-> "ok", published |-> news_text]
        ELSE [kind |-> "job", outcome |-> "logged", published |-> NotCalled]

\* The callback "signal_<coin>" on one ticker of each shape
CallerSignal(ticker) ==
    /\ ticker \in CallerTickers
    /\ TradingSignal(ticker)

\* The callback "market_trends"
MarketTrends(tickers) ==
    /\ fnOutput = NotCalled
    /\ fnInput' = [tag |-> "tickers", val |-> tickers]
    /\ fnOutput' = get_market_trends(tickers)
    /\ UNCHANGED <<riskFile, riskPublished, logVars, schedVars, chatVars>>

\* The callback "crypto_news"
CryptoNews(resp) ==
    /\ fnOutput = NotCalled
    /\ fnInput' = resp
    /\ fnOutput' = get_crypto_news_text(resp)
    /\ UNCHANGED <<riskFile, riskPublished, logVars, schedVars, chatVars>>

\* One run of the job post_crypto_news
PostCryptoNews(resp, sendOK) ==
    /\ fnOutput = NotCalled
    /\ fnInput' = resp
    /\ fnOutput' = post_crypto_news(resp, sendOK)
    /\ UNCHANGED <<riskFile, riskPublished, logVars, schedVars, chatVars>>


NextClient ==
    \/ \E ticker \in CallerTickers : CallerSignal(ticker)
    \/ \E tickers \in TickersPerCoin : MarketTrends(tickers)
    \/ \E n \in 0..MaxNews : \E r \in ResultsOfLen(n) : CryptoNews(NewsResults(r))
    \/ \E resp \in {NewsRaises, NewsNotObject, NewsNoResults, NewsBadResults},
          sendOK \in BOOLEAN : PostCryptoNews(resp, sendOK)
    \/ \E n \in 0..MaxNews : \E r \in ResultsOfLen(n), sendOK \in BOOLEAN :
          PostCryptoNews(NewsResults(r), sendOK)
    \/ CallReturns

InitClientSpec == InitLog /\ InitSched /\ InitFn

SpecClient == InitClientSpec /\ [][NextClient]_vars

\* C12: whatever the market data client is answered (a failed request, a
\* timeout, a malformed answer, valid JSON of an unexpected shape), no
\* exception leaves the caller that uses the result: get_live_trading_signal,
\* get_market_trends and get_crypto_news_text return a text, and the job
\* post_crypto_news ends without raising into the scheduler.
C12_NoExceptionLeavesCaller ==
    fnOutput # NotCalled =>
        /\ fnOutput.kind # "raised"
        /\ (fnOutput.kind = "job" => fnOutput.outcome # "raised")

-----------------------------------------------------------------------------
(* post_fear_greed_index, and the reports on answers that lack a field *)

MaxSnapshot == 2    \* tickers in a snapshot with a field missing

FieldMissing == [tag |-> "missing", val |-> 0]
Field(v)     == [tag |-> "field",   val |-> v]

\* The first entry of "data": its "value" and its "value_classification",
\* each there or not
SentimentEntry(value, classification) ==
    [tag |-> "entry", value |-> value, classification |-> classification]

SentimentEntries ==
    {SentimentEntry(v, c) :
        v \in {FieldMissing, Field(0), Field(MaxIndex)},
        c \in {FieldMissing, Field("Fear")}}

SentimentResponses == {FngRaises, FngNoData} \cup SentimentEntries

Unavailable == [sentiment |-> NA, index |-> NA]

\* post_fear_greed_index: data["data"][0]["value"] and
\* data["data"][0]["value_classification"] raise KeyError when the key is not
\* there, inside the try of the job
post_fear_greed_index(resp, sendOK) ==
    IF resp.tag = "raise" THEN Logged
    ELSE IF resp.tag = "entry"
            /\ (resp.value = FieldMissing \/ resp.classification = FieldMissing)
    THEN Logged
    ELSE [kind |-> "fng",
          message |-> IF resp.tag = "entry"
                      THEN [sentiment |-> resp.classification,
                            index |-> resp.value]
                      ELSE Unavailable,
          sent |-> sendOK]

\* One run of the job post_fear_greed_index
PostFearGreedIndex(resp, sendOK) ==
    /\ fnOutput = NotCalled
    /\ fnInput' = resp
    /\ fnOutput' = post_fear_greed_index(resp, sendOK)
    /\ UNCHANGED <<riskFile, riskPublished, logVars, schedVars, chatVars>>

\* The callback "top_gainers_losers" on the snapshot s
MoversCall(s) ==
    /\ fnOutput = NotCalled
    /\ fnInput' = SnapshotOf(s)
    /\ fnOutput' = get_top_gainers_losers(SnapshotOf(s))
    /\ UNCHANGED <<riskFile, riskPublished, logVars, schedVars, chatVars>>

NextDegrade ==
    \/ \E resp \in SentimentResponses, sendOK \in BOOLEAN :
          PostFearGreedIndex(resp, sendOK)
    \/ \E resp \in {FngRaises, FngNoData, FngNoValue, FngBadValue,
                    FngValue(0), FngValue(MaxIndex)},
          live \in LiveSignals, sendOK \in BOOLEAN,
          writeOutcome \in {"ok", "openfails"} :
            /\ riskPublished = <<>>
            /\ PostRiskMeter(resp, live, sendOK, FALSE, writeOutcome, 0)
    \/ \E n \in 0..MaxSnapshot : \E s \in SnapshotsOfLen(n) : MoversCall(s)
    \/ CallReturns

InitDegradeSpec == InitLog /\ InitSched /\ InitFn

SpecDegrade == InitDegradeSpec /\ [][NextDegrade]_vars

\* The lines of both tables of the movers text
LinesOf(out) ==
    {out.gainers[i] : i \in DOMAIN out.gainers}
        \cup {out.losers[i] : i \in DOMAIN out.losers}

\* C13: when a field is missing from a decoded answer the report is still
\* built (and published when the send goes through) and shows a marker in
\* the place of the field: "value" or "value_classification" of the sentiment
\* entry in post_fear_greed_index, "value" in post_risk_meter,
\* priceChangePercent of a ticker in the movers tables; no numeric default
\* is shown.
C13_MissingFieldShownAsMarker ==
    /\ (fnOutput # NotCalled /\ fnInput.tag = "entry") =>
          /\ fnOutput.kind = "fng"
          /\ (fnInput.value = FieldMissing => fnOutput.message.index = NA)
          /\ (fnInput.classification = FieldMissing
                  => fnOutput.message.sentiment = NA)
    /\ (fnOutput # NotCalled /\ fnInput.tag = "novalue") =>
          /\ fnOutput.kind = "risk"
          /\ fnOutput.message.value = NA
    /\ (fnOutput # NotCalled /\ fnInput.tag = "list") =>
          /\ fnOutput.kind = "tables"
          /\ \A line \in LinesOf(fnOutput) :
                fnInput.list[line.coin].priceChangePercent = ChangeMissing
                    => line.shown = NA

-----------------------------------------------------------------------------
(* Ties in get_top_gainers_losers *)

\* The sort key of the ticker at place i of the snapshot
KeyAt(i) == ChangeKey(fnInput.list[i])

\* Tickers of equal key are listed in the order of the snapshot
ListedInInputOrder(table) ==
    \A i, j \in DOMAIN table :
        (i < j /\ table[i].change = table[j].change)
            => table[i].coin < table[j].coin

\* Of tickers of equal key, the earlier ones of the snapshot are listed
EarlierSelected(table) ==
    \A in \in CoinsOf(table) : \A out \in UsdtPlaces \ CoinsOf(table) :
        KeyAt(in) = KeyAt(out) => in < out

\* Of tickers of equal key, the later ones of the snapshot are listed
LaterSelected(table) ==
    \A in \in CoinsOf(table) : \A out \in UsdtPlaces \ CoinsOf(table) :
        KeyAt(in) = KeyAt(out) => in > out

\* C14 as stated: among tickers of equal change, the earlier one in the
\* snapshot is selected first at the cut-off of five and listed first, in the
\* gainers table and in the losers table.
C14_TiesByInputOrder ==
    (fnOutput # NotCalled /\ fnInput.tag = "list") =>
        /\ fnOutput.kind = "tables"
        /\ ListedInInputOrder(fnOutput.gainers)
        /\ ListedInInputOrder(fnOutput.losers)
        /\ EarlierSelected(fnOutput.gainers)
        /\ EarlierSelected(fnOutput.losers)

\* C14 amended: among tickers of equal change both tables list the earlier
\* one in the snapshot first; at the cut-off of five the losers table selects
\* the earlier ones in the snapshot and the gainers table the later ones.
C14_TiesByInputOrderAmended ==
    (fnOutput # NotCalled /\ fnInput.tag = "list") =>
        /\ fnOutput.kind = "tables"
        /\ ListedInInputOrder(fnOutput.gainers)
        /\ ListedInInputOrder(fnOutput.losers)
        /\ LaterSelected(fnOutput.gainers)
        /\ EarlierSelected(fnOutput.losers)

\* C14 witness: six USDT tickers of one change; the gainers leave out the
\* first and the losers the last, and both list theirs in snapshot order
C14_Witness ==
    /\ fnOutput # NotCalled
    /\ fnInput.tag = "list"
    /\ UsdtPlaces = 1..(TOP_N + 1)
    /\ \A i \in UsdtPlaces : KeyAt(i) = KeyAt(1)
    /\ fnOutput.kind = "tables"
    /\ CoinsOf(fnOutput.gainers) = 2..(TOP_N + 1)
    /\ CoinsOf(fnOutput.losers) = 1..TOP_N
    /\ fnOutput.gainers[1].coin = 2

-----------------------------------------------------------------------------
(* The order of the log *)

TimeOf(r) == fromisoformat(r.timestamp)

\* The timestamps of a list of records never go down
InTimeOrder(recs) ==
    \A i, j \in DOMAIN recs : i < j => TimeOf(recs[i]) <= TimeOf(recs[j])

\* C15: with its single writer, which takes the timestamp at the start of the
\* run, the records of the log (and of every list the summary loads from it)
\* are in the order they were appended and their timestamps never go down in
\* that order; so in a table the Start of a coin is a sample of the earliest
\* timestamp and its End a sample of the latest timestamp among the coin's
\* samples inside the window.
C15_LogInTimeOrder ==
    /\ InTimeOrder(file.recs)
    /\ InTimeOrder(existing_data)
    /\ InTimeOrder(data_records)
    /\ (rpc = "done" /\ rload = "ok" /\ summary_text.kind = "table") =>
          \A c \in CoinSet :
              PresentAt(c) # {} =>
                  /\ \E i \in PresentAt(c) :
                        /\ summary_text.rows[c].start = SampleAt(i, c)
                        /\ \A j \in PresentAt(c) :
                              TimeOf(data_records[i]) <= TimeOf(data_records[j])
                  /\ \E i \in PresentAt(c) :
                        /\ summary_text.rows[c].end = SampleAt(i, c)
                        /\ \A j \in PresentAt(c) :
                              TimeOf(data_records[i]) >= TimeOf(data_records[j])

\* C15 witness: the summary made a table from a log of two records taken at
\* different times, both inside the window, with two different prices of BTC
C15_Witness ==
    /\ rpc = "done"
    /\ rload = "ok"
    /\ summary_text.kind = "table"
    /\ Len(data_records) = 2
    /\ TimeOf(data_records[1]) < TimeOf(data_records[2])
    /\ PresentAt("BTC") = {1, 2}
    /\ summary_text.rows["BTC"].start = SampleAt(1, "BTC")
    /\ summary_text.rows["BTC"].end = SampleAt(2, "BTC")
    /\ SampleAt(1, "BTC") # SampleAt(2, "BTC")

-----------------------------------------------------------------------------
(* The summary as a read of the log *)

\* The report of the run is the one of the list it loaded, at the time of
\* the run
ReportOfLoadedLog ==
    IF InsideAt = {}
    THEN summary_text = NoDataText
    ELSE /\ summary_text.kind = "table"
         /\ \A c \in CoinSet : RowAsClaimed(c)

\* C16: post_daily_summary only reads.  No step of a run changes the log
\* file, whatever the log holds and however the run ends (report published,
\* no data, read error, publish error), and the report of a run is computed
\* from the log as that run loaded it, at the time of that run.
C16_SummaryOnlyReads ==
    [][(rpc # "idle" \/ rpc' # "idle") =>
          /\ file' = file
          /\ (rpc # "done" /\ rpc' = "done" /\ rload' = "ok") =>
                /\ data_records' = file'.recs
                /\ rnow' = now'
                /\ ReportOfLoadedLog'
          /\ (rpc' = "done" /\ rload' # "ok") =>
                /\ summary_text' = NoText
                /\ channel' = NoText]_vars

\* C16 witness: a run made its table from a log of two records and failed
\* to publish it; the file still holds the two records
C16_Witness ==
    /\ rpc = "done"
    /\ rload = "ok"
    /\ summary_text.kind = "table"
    /\ channel = NoText
    /\ Len(data_records) = 2
    /\ file = Complete(data_records)

-----------------------------------------------------------------------------
(* post_top5_update *)

DataErr == [tag |-> "Data err", val |-> 0]
Blank   == [tag |-> "blank",    val |-> 0]

\* A row that shows the price whenever the price was fetched
Top5RowPriceAlone(ticker, price) ==
    IF ticker.tag = "change" /\ price # None
    THEN [price |-> price, change |-> Float(ticker.val)]
    ELSE [price |-> IF price # None THEN price ELSE NA, change |-> NA]

\* The row of one coin:
\*   if ticker and price is not None and "priceChangePercent" in ticker:
\*       try: change = float(...); the row of price and change
\*       except Exception: 'Data err' and an empty change column
\*   else: 'N/A' in both columns
Top5Row(ticker, price) ==
    IF ticker.tag \in {"change", "badnum"} /\ price # None
    THEN IF ticker.tag = "change"
         THEN [price |-> price, change |-> Float(ticker.val)]
         ELSE [price |-> DataErr, change |-> Blank]
    ELSE [price |-> NA, change |-> NA]

\* post_top5_update: the whole body is in one try; the test of a ticker that
\* is no container raises and the run ends in the except branch
post_top5_update(tickers, resp, sendOK) ==
    IF \E c \in CoinSet : tickers[c].tag = "scalar"
    THEN Logged
    ELSE [kind |-> "top5",
          rows |-> [c \in CoinSet |->
                       Top5Row(tickers[c], fetch_binance_price(resp[c]))],
          sent |-> sendOK]

\* One run of the job post_top5_update
PostTop5Update(tickers, resp, sendOK) ==
    /\ fnOutput = NotCalled
    /\ fnInput' = [tag |-> "top5", tickers |-> tickers, prices |-> resp]
    /\ fnOutput' = post_top5_update(tickers, resp, sendOK)
    /\ UNCHANGED <<riskFile, riskPublished, logVars, schedVars, chatVars>>

NextQuote ==
    \/ \E tickers \in TickersPerCoin, resp \in Responses, sendOK \in BOOLEAN :
          PostTop5Update(tickers, resp, sendOK)
    \/ \E resp \in FngResponses, live \in LiveSignals, sendOK \in BOOLEAN :
          /\ riskPublished = <<>>
          /\ PostRiskMeter(resp, live, sendOK, FALSE, "openfails", 0)
    \/ CallReturns

InitQuoteSpec == InitLog /\ InitSched /\ InitFn

SpecQuote == InitQuoteSpec /\ [][NextQuote]_vars

\* Both fetches of the coin gave a value in this run
BothFetched(c) ==
    /\ fnInput.tickers[c].tag = "change"
    /\ fnInput.prices[c].tag = "price"

\* The risk level and the index of a risk report are of one reading, or both
\* "N/A"
RiskOfOneReading ==
    fnOutput.kind = "risk" =>
        IF fnInput.tag = "value"
        THEN /\ fnOutput.message.value = IntValue(fnInput.val)
             /\ fnOutput.message.risk_level
                    \in {"High Risk", "Medium Risk", "Low Risk"}
        ELSE /\ fnOutput.message.value = NA
             /\ fnOutput.message.risk_level = "N/A"

-----------------------------------------------------------------------------
(* risk_meter.json over the runs of post_risk_meter *)

MaxRisk == 2    \* messages published

NextRiskLog ==
    \/ \E resp \in {FngRaises, FngNoData, FngValue(0)}, sendOK \in BOOLEAN,
          readFails \in BOOLEAN,
          writeOutcome \in {"ok", "openfails", "dumpfails"},
          k \in 0..MaxRisk :
            /\ Len(riskPublished) < MaxRisk
            /\ PostRiskMeter(resp, "table", sendOK, readFails, writeOutcome, k)
    \/ CallReturns
    \/ Tick

InitRiskLogSpec == InitLog /\ InitSched /\ InitFn

SpecRiskLog == InitRiskLogSpec /\ [][NextRiskLog]_vars

Corrupt(f) == f.exists /\ ~Parsable(f)

\* Every snapshot of the file is of a message that was published
SnapshotsPublished ==
    \A i \in DOMAIN riskFile.recs :
        \E j \in DOMAIN riskPublished :
            riskFile.recs[i].risk_message = riskPublished[j]

\* C18: the snapshot is stored only after the message was published.  A run
\* that publishes nothing (the index cannot be read, the send fails) and a
\* run that cannot read risk_meter.json leave the file as it is; so every
\* snapshot of the file is of a published message, and a corrupt file is
\* never written again by a later run.
C18_StoredOnlyAfterPublished ==
    [][/\ (fnOutput = NotCalled /\ fnOutput' # NotCalled) =>
             /\ (fnOutput'.kind = "logged" => riskFile' = riskFile)
             /\ (fnOutput'.kind = "risk" /\ ~fnOutput'.sent) =>
                    (riskFile' = riskFile /\ riskPublished' = riskPublished)
             /\ (fnOutput'.kind = "risk" /\ fnOutput'.sent) =>
                    riskPublished' = Append(riskPublished, fnOutput'.message)
             /\ (fnOutput'.kind = "risk" /\ fnOutput'.persisted = "readfails")
                    => riskFile' = riskFile
       /\ (Corrupt(riskFile) => riskFile' = riskFile)
       /\ SnapshotsPublished']_vars

\* C18 witness: a run published its message and could not read the corrupt
\* risk_meter.json an earlier run had left; the file is still the corrupt one
C18_Witness ==
    /\ fnOutput # NotCalled
    /\ fnOutput.kind = "risk"
    /\ fnOutput.sent
    /\ fnOutput.persisted = "readfails"
    /\ Corrupt(riskFile)
    /\ Len(riskFile.recs) = 1
    /\ Len(riskPublished) = 2

-----------------------------------------------------------------------------
(* handle_text and callback_handler *)

\* A menu whose "back_to_menu" button drops the pending state
StateAfterCallbackMenuClears(state, data) ==
    IF data = "update_portfolio" THEN "awaiting_portfolio_update"
    ELSE IF data = "coin_search" THEN "awaiting_coin_search"
    ELSE IF data = "back_to_menu" THEN "none"
    ELSE state

\* user_states[chat_id] after a callback: set by "update_portfolio" and by
\* "coin_search", left alone by every other button
StateAfterCallback(state, data) ==
    IF data = "update_portfolio" THEN "awaiting_portfolio_update"
    ELSE IF data = "coin_search" THEN "awaiting_coin_search"
    ELSE state

\* user_portfolios[chat_id] after a text
PortfolioAfterText(state, portfolio, text) ==
    IF state = "awaiting_portfolio_update" THEN strip(text) ELSE portfolio

\* user_states[chat_id] after a text: user_states.pop(chat_id, None) stands
\* after client.send_message, and handle_text has no try: when the send
\* raises the pop is not reached
StateAfterText(state, sendOK) ==
    IF state \in Awaiting /\ sendOK THEN "none" ELSE state

\* What the handler of a text did
TextOutcome(state, sendOK) ==
    IF state \notin Awaiting THEN [kind |-> "ignored", sent |-> FALSE]
    ELSE IF sendOK THEN [kind |-> "reply", sent |-> TRUE]
    ELSE [kind |-> "raised", sent |-> FALSE]

\* handle_text(client, message)
HandleText(chat, text, sendOK) ==
    /\ fnOutput = NotCalled
    /\ fnInput' = [tag |-> "text", chat |-> chat, text |-> text, data |-> "none"]
    /\ fnOutput' = TextOutcome(user_states[chat], sendOK)
    /\ user_portfolios' =
          [user_portfolios EXCEPT
              ![chat] = PortfolioAfterText(user_states[chat], @, text)]
    /\ user_states' =
          [user_states EXCEPT ![chat] = StateAfterText(@, sendOK)]
    /\ UNCHANGED <<riskFile, riskPublished, logVars, schedVars>>

\* callback_handler(client, callback_query): the state is set before the
\* message is edited, and the edit is in a try
CallbackHandler(chat, data, sendOK) ==
    /\ fnOutput = NotCalled
    /\ fnInput' = [tag |-> "callback", chat |-> chat, text |-> Absent,
                   data |-> data]
    /\ fnOutput' = [kind |-> "edited", sent |-> sendOK]
    /\ user_states' =
          [user_states EXCEPT ![chat] = StateAfterCallback(@, data)]
    /\ UNCHANGED <<user_portfolios, riskFile, riskPublished, logVars, schedVars>>

NextChat ==
    \/ \E chat \in Chats, text \in Texts, sendOK \in BOOLEAN :
          HandleText(chat, text, sendOK)
    \/ \E chat \in Chats, data \in CallbackData, sendOK \in BOOLEAN :
          CallbackHandler(chat, data, sendOK)
    \/ CallReturns

InitChatSpec == InitLog /\ InitSched /\ InitFn

SpecChat == InitChatSpec /\ [][NextChat]_vars

\* A step in which a handler runs on an event of the chat c
EventOf(c, tag) ==
    /\ fnOutput = NotCalled
    /\ fnOutput' # NotCalled
    /\ fnInput'.tag = tag
    /\ fnInput'.chat = c

\* What holds of every event whatever the reply does: a text sets the
\* portfolio of its chat exactly when the chat awaits a portfolio update, a
\* text to a chat that awaits nothing is ignored, a callback sets the state
\* only by "update_portfolio" and "coin_search", and no event touches
\* another chat
EventsKeepToTheirChat ==
    \A c \in Chats :
        /\ EventOf(c, "text") =>
              /\ user_states[c] = "awaiting_portfolio_update"
                    => user_portfolios'[c] = strip(fnInput'.text)
              /\ user_states[c] # "awaiting_portfolio_update"
                    => user_portfolios'[c] = user_portfolios[c]
              /\ user_states[c] = "none" => user_states'[c] = "none"
        /\ EventOf(c, "callback") =>
              /\ user_portfolios'[c] = user_portfolios[c]
              /\ fnInput'.data = "update_portfolio"
                    => user_states'[c] = "awaiting_portfolio_update"
              /\ fnInput'.data = "coin_search"
                    => user_states'[c] = "awaiting_coin_search"
              /\ fnInput'.data \notin {"update_portfolio", "coin_search"}
                    => user_states'[c] = user_states[c]
        /\ (EventOf(c, "text") \/ EventOf(c, "callback")) =>
              \A d \in Chats \ {c} :
                  /\ user_states'[d] = user_states[d]
                  /\ user_portfolios'[d] = user_portfolios[d]

\* C19 as stated: a text changes the portfolio of its chat if and only if the
\* chat awaits a portfolio update; handling a text in either awaiting state
\* clears the pending state of the chat; callbacks other than
\* "update_portfolio" and "coin_search" leave it in place; no event changes
\* another chat.
C19_PendingState ==
    [][/\ EventsKeepToTheirChat
       /\ \A c \in Chats :
             (EventOf(c, "text") /\ user_states[c] \in Awaiting)
                 => user_states'[c] = "none"]_vars

\* C19 amended: the same, except that the pending state is cleared when the
\* reply to the text was sent; when sending the reply raises, the pending
\* state stays as it was (and the portfolio has been updated).
C19_PendingStateAmended ==
    [][/\ EventsKeepToTheirChat
       /\ \A c \in Chats :
             (EventOf(c, "text") /\ user_states[c] \in Awaiting) =>
                 IF fnOutput'.sent
                 THEN user_states'[c] = "none"
                 ELSE user_states'[c] = user_states[c]]_vars

\* C19 witness: chat 1 had its portfolio set by a text whose reply was sent,
\* and its state cleared, while chat 2 still awaits a coin search
C19_Witness ==
    /\ fnInput.tag = "text"
    /\ fnInput.chat = 1
    /\ fnOutput.kind = "reply"
    /\ user_portfolios[1] = strip(fnInput.text)
    /\ fnInput.text.padded
    /\ user_states[1] = "none"
    /\ user_states[2] = "awaiting_coin_search"
    /\ user_portfolios[2] = Absent

====
